---- MODULE Spec2Model ----
(***************************************************************************)
(* KoStore: the persistent cache (services/cache.py), the device locator    *)
(* (services/device_detection.py) and the main window's reconciliation of  *)
(* catalog, inventory, favorites and updates (ui/main_window.py), as state *)
(* machines.                                                               *)
(*                                                                         *)
(* Time is counted in units of two weeks.  A dictionary (the JSON object   *)
(* held in CacheService.cache_data and written to the cache file) is a     *)
(* function whose domain is the set of keys that are present.  A file that *)
(* cannot be opened or decoded is a file that is not JSON ("garbage").     *)
(***************************************************************************)
EXTENDS Integers, Sequences, FiniteSets, TLC

VARIABLES
    cache_data,     \* CacheService.cache_data, the in-memory envelope
    cache_file,     \* what is on disk at CacheService.cache_file
    now,            \* datetime.now()
    call,           \* the CacheService operation that has just returned: name, argument, result, save outcome
    just_saved,     \* history: the last operation that changed anything was a save that succeeded
    system,         \* DeviceDetection.system, platform.system()
    fs,             \* the paths that exist on the file systems DeviceDetection probes
    probe,          \* the last DeviceDetection operation: name, argument, candidates found, result
    window,         \* the KOReaderStore object: its fields, its widgets' texts and the cards laid out
    inventory       \* what PluginInstaller.get_installed_plugins() returns: name -> installed version

cvars == <<cache_data, cache_file, now, call, just_saved>>

dvars == <<system, fs, probe>>

wvars == <<window, inventory>>

vars == <<cache_data, cache_file, now, call, just_saved, system, fs, probe, window, inventory>>

-----------------------------------------------------------------------------
(* Bounds of the model *)

MaxTime == 3

(* Program constants *)

cache_duration == 2         \* timedelta(weeks=4), in the time unit of the model

(* The values the model draws from *)

PluginLists == {<<"p2", "p1">>}
PatchLists == {<<"q1">>}
Names == {"a", "b"}

-----------------------------------------------------------------------------
(* Dictionaries *)

EmptyDict == [k \in {} |-> 0]

Has(d, k) == k \in DOMAIN d

Get(d, k, default) == IF k \in DOMAIN d THEN d[k] ELSE default

Put(d, k, v) == [x \in DOMAIN d \cup {k} |-> IF x = k THEN v ELSE d[x]]

(* set(list) and list(set): the order list() gives a set is not determined *)

set(l) == {l[i] : i \in 1..Len(l)}

Orderings(S) == {l \in [1..Cardinality(S) -> S] : set(l) = S}

list(S) == Orderings(S)

(* datetime.isoformat() / datetime.fromisoformat(): a timestamp string either
   parses back to the time it was made from, or does not parse *)

isoformat(t) == [iso |-> TRUE, at |-> t]

NotIso == [iso |-> FALSE, at |-> 0]

fromisoformat(s) == IF s.iso THEN [raised |-> FALSE, at |-> s.at] ELSE [raised |-> TRUE, at |-> 0]

-----------------------------------------------------------------------------
(* CacheService, as functions of the envelope d, the file f and the time t *)

Bool(b) == IF b THEN "true" ELSE "false"

(* is_cache_expired comparing with >= *)
is_cache_expired_try_ge(d, t) ==
    LET last_updated == fromisoformat(d["last_updated"])
    IN  IF last_updated.raised
        THEN "raised"
        ELSE Bool(t - last_updated.at >= cache_duration)

(* The body of is_cache_expired's try block: its result, or "raised" *)
is_cache_expired_try(d, t) ==
    LET last_updated == fromisoformat(d["last_updated"])
    IN  IF last_updated.raised
        THEN "raised"
        ELSE Bool(t - last_updated.at > cache_duration)

(* is_cache_expired whose except branch returns False *)
is_cache_expired_result_unparsed_fresh(d, t) ==
    IF ~Has(d, "last_updated")
    THEN "true"
    ELSE LET r == is_cache_expired_try(d, t)
         IN  IF r = "raised" THEN "false" ELSE r

is_cache_expired_result(d, t) ==
    IF ~Has(d, "last_updated")
    THEN "true"
    ELSE LET r == is_cache_expired_try(d, t)
         IN  IF r = "raised" THEN "true" ELSE r

(* The body of load_cache's try block: its result, or "raised" with what
   cache_data holds when the exception leaves the block *)
load_cache_try(d, f, t) ==
    CASE f.kind = "missing" -> [cache_data |-> EmptyDict, ret |-> "false"]
      [] f.kind = "garbage" -> [cache_data |-> d, ret |-> "raised"]
      [] f.kind = "scalar"  -> [cache_data |-> f.data, ret |-> "raised"]
      [] f.kind = "unsized" ->
            IF is_cache_expired_result(f.data, t) = "true"
            THEN [cache_data |-> EmptyDict, ret |-> "false"]
            ELSE [cache_data |-> f.data, ret |-> "raised"]
      [] f.kind = "dict" ->
            IF is_cache_expired_result(f.data, t) = "true"
            THEN [cache_data |-> EmptyDict, ret |-> "false"]
            ELSE [cache_data |-> f.data, ret |-> "true"]

(* load_cache whose except branch does not reset cache_data *)
load_cache_result_keeps(d, f, t) ==
    LET r == load_cache_try(d, f, t)
    IN  IF r.ret = "raised"
        THEN [cache_data |-> r.cache_data, ret |-> "false"]
        ELSE r

load_cache_result(d, f, t) ==
    LET r == load_cache_try(d, f, t)
    IN  IF r.ret = "raised"
        THEN [cache_data |-> EmptyDict, ret |-> "false"]
        ELSE r

(* a dump that leaves the favorites out *)
json_dump_without_favorites(d) ==
    [kind |-> "dict", data |-> [k \in DOMAIN d \ {"favorites"} |-> d[k]]]

json_dump(d) == [kind |-> "dict", data |-> d]

Garbage == [kind |-> "garbage", data |-> EmptyDict]

(* save_cache that resets cache_data when the write fails *)
save_cache_result_clears(d, f, t, io) ==
    LET stamp == Put(d, "last_updated", isoformat(t))
    IN  CASE io = "ok" ->
                [cache_data |-> stamp, cache_file |-> json_dump(stamp), ret |-> "true"]
          [] io = "open_fails" ->
                [cache_data |-> EmptyDict, cache_file |-> f, ret |-> "false"]
          [] io = "write_fails" ->
                [cache_data |-> EmptyDict, cache_file |-> Garbage, ret |-> "false"]

(* save_cache that stamps cache_data only once the file is written *)
save_cache_result_stamps_late(d, f, t, io) ==
    LET stamp == Put(d, "last_updated", isoformat(t))
    IN  CASE io = "ok" ->
                [cache_data |-> stamp, cache_file |-> json_dump(stamp), ret |-> "true"]
          [] io = "open_fails" ->
                [cache_data |-> d, cache_file |-> f, ret |-> "false"]
          [] io = "write_fails" ->
                [cache_data |-> d, cache_file |-> Garbage, ret |-> "false"]

(* io is what the file system does with the write: "ok", "open_fails" (open()
   raises, the file is untouched) or "write_fails" (the file was truncated by
   open() and json.dump did not complete) *)
save_cache_result(d, f, t, io) ==
    LET stamp == Put(d, "last_updated", isoformat(t))
    IN  CASE io = "ok" ->
                [cache_data |-> stamp, cache_file |-> json_dump(stamp), ret |-> "true"]
          [] io = "open_fails" ->
                [cache_data |-> stamp, cache_file |-> f, ret |-> "false"]
          [] io = "write_fails" ->
                [cache_data |-> stamp, cache_file |-> Garbage, ret |-> "false"]

IoOutcomes == {"ok", "open_fails", "write_fails"}

get_plugins_result(d) == Get(d, "plugins", <<>>)

get_patches_result(d) == Get(d, "patches", <<>>)

get_favorites_result(d) == set(Get(d, "favorites", <<>>))

set_plugins_result(d, plugins) == Put(d, "plugins", plugins)

set_patches_result(d, patches) == Put(d, "patches", patches)

set_favorites_result(d, favorites) == {Put(d, "favorites", l) : l \in list(favorites)}

(* add_favorite that toggles *)
add_favorite_set_toggles(d, plugin_name) ==
    IF plugin_name \in get_favorites_result(d)
    THEN get_favorites_result(d) \ {plugin_name}
    ELSE get_favorites_result(d) \cup {plugin_name}

add_favorite_set(d, plugin_name) == get_favorites_result(d) \cup {plugin_name}

remove_favorite_set(d, plugin_name) == get_favorites_result(d) \ {plugin_name}

-----------------------------------------------------------------------------
(* DeviceDetection.  A path is the sequence of its components; os.path.exists
   is membership in fs. *)

join(path, name) == Append(path, name)

exists(F, path) == path \in F

expanduser_koreader == <<"~", "koreader">>          \* os.path.expanduser("~/koreader")

has_koreader(F, path) ==
    IF exists(F, join(path, "koreader.sh"))
    THEN TRUE
    ELSE IF exists(F, join(path, "settings.reader.lua"))
         THEN TRUE
         ELSE FALSE

Concat(ss) ==
    LET RECURSIVE cat(_)
        cat(n) == IF n = 0 THEN <<>> ELSE cat(n - 1) \o ss[n]
    IN  cat(Len(ss))

(* the fixed paths kept on existence alone *)
fixed_paths_unmarked(F, paths) ==
    LET keep(path) == exists(F, path)
    IN  SelectSeq(paths, keep)

(* The fixed paths of a platform that exist and carry a marker, in the order
   the code tries them *)
fixed_paths(F, paths) ==
    LET keep(path) == exists(F, path) /\ has_koreader(F, path)
    IN  SelectSeq(paths, keep)

windows_drives ==
    << "E:", "F:", "G:", "H:", "I:", "J:", "K:", "L:", "M:", "N:", "O:",
       "P:", "Q:", "R:", "S:", "T:", "U:", "V:", "W:", "X:", "Y:", "Z:" >>

search_locations == << ".adds", "extensions", "documents", ".kobo", "applications", "" >>

local_paths ==
    << expanduser_koreader, <<"C:", "koreader">>, <<"C:", "Program Files", "koreader">>,
       <<"C:", "Program Files (x86)", "koreader">> >>

mac_paths ==
    << <<"Volumes", "koreader">>, <<"Volumes", "KOReader">>, expanduser_koreader,
       <<"Applications", "koreader">> >>

windows_drive_paths(F, drive) ==
    LET search_path(location) == IF location # "" THEN <<drive, location>> ELSE <<drive>>
        found(location) ==
            IF /\ exists(F, search_path(location))
               /\ exists(F, join(search_path(location), "koreader"))
               /\ has_koreader(F, join(search_path(location), "koreader"))
            THEN <<join(search_path(location), "koreader")>>
            ELSE <<>>
    IN  IF exists(F, <<drive>>)
        THEN Concat([i \in 1..Len(search_locations) |-> found(search_locations[i])])
        ELSE <<>>

windows_paths(F) ==
    Concat([i \in 1..Len(windows_drives) |-> windows_drive_paths(F, windows_drives[i])])
        \o fixed_paths(F, local_paths)

(* glob.glob("/<root>/*/koreader"): the matches that exist, in the order the
   directory scan yields them, which nothing fixes *)
glob(F, root) ==
    Orderings({path \in F : Len(path) = 3 /\ path[1] = root /\ path[3] = "koreader"})

linux_glob_paths(F, root) ==
    LET keep(path) == has_koreader(F, path)
    IN  {SelectSeq(found_paths, keep) : found_paths \in glob(F, root)}

linux_paths(F) ==
    { media \o mnt \o fixed_paths(F, <<expanduser_koreader>>) \o fixed_paths(F, << <<"opt", "koreader">> >>) :
        media \in linux_glob_paths(F, "media"), mnt \in linux_glob_paths(F, "mnt") }

(* get_koreader_paths(): the lists it may return *)
get_koreader_paths_results(sys, F) ==
    CASE sys = "Windows" -> {windows_paths(F)}
      [] sys = "Darwin"  -> {fixed_paths(F, mac_paths)}
      [] sys = "Linux"   -> linux_paths(F)
      [] OTHER           -> {<<>>}

(* detect_koreader_device that takes the first of several *)
detect_koreader_device_result_first(possible_paths) ==
    IF Len(possible_paths) = 0
    THEN [kind |-> "none", value |-> <<>>]
    ELSE [kind |-> "path", value |-> <<possible_paths[1]>>]

(* What detect_koreader_device() returns for the list get_koreader_paths() gave:
   None, one path, or the list *)
detect_koreader_device_result(possible_paths) ==
    IF Len(possible_paths) = 0
    THEN [kind |-> "none", value |-> <<>>]
    ELSE IF Len(possible_paths) = 1
         THEN [kind |-> "path", value |-> <<possible_paths[1]>>]
         ELSE [kind |-> "list", value |-> possible_paths]

essential_items == << "koreader.sh", "frontend", "plugins", "data" >>

(* validate_koreader_installation that is content with the launcher script *)
validate_koreader_installation_result_launcher(F, path) ==
    IF ~exists(F, path)
    THEN FALSE
    ELSE exists(F, join(path, essential_items[1]))

(* validate_koreader_installation(path): the path and every essential item exist *)
validate_koreader_installation_result(F, path) ==
    IF ~exists(F, path)
    THEN FALSE
    ELSE \A i \in 1..Len(essential_items) : exists(F, join(path, essential_items[i]))

Whitespace == {" ", "\t", "\n", "\r"}

(* str.strip(): leading and trailing whitespace removed *)
strip(s) ==
    LET RECURSIVE lstrip(_), rstrip(_)
        lstrip(x) == IF Len(x) > 0 /\ Head(x) \in Whitespace THEN lstrip(Tail(x)) ELSE x
        rstrip(x) == IF Len(x) > 0 /\ SubSeq(x, Len(x), Len(x)) \in Whitespace
                     THEN rstrip(SubSeq(x, 1, Len(x) - 1))
                     ELSE x
    IN  rstrip(lstrip(s))

ReadOutcomes == {"ok", "open_fails", "read_fails"}

(* get_device_info(koreader_path) on platform sys; io is how reading git-rev
   goes and content is what the file holds *)
get_device_info_result(sys, F, koreader_path, io, content) ==
    LET info == Put(Put(Put(Put(EmptyDict, "path", koreader_path), "valid", FALSE),
                        "version", "Unknown"), "platform", sys)
        version_file == join(koreader_path, "git-rev")
        versioned(d) == IF exists(F, version_file) /\ io = "ok"
                        THEN Put(d, "version", strip(content))
                        ELSE d
    IN  IF validate_koreader_installation_result(F, koreader_path)
        THEN Put(Put(versioned(Put(info, "valid", TRUE)),
                     "plugins_exist", exists(F, join(koreader_path, "plugins"))),
                 "patches_exist", exists(F, join(koreader_path, "patches")))
        ELSE info

(* The file systems the model probes: each of a few candidate directories of
   the platform is absent, present without a marker, or present with either
   marker or both *)
Systems == {"Windows", "Darwin", "Linux", "Java"}

CandidateDirs(sys) ==
    CASE sys = "Windows" ->
            { <<"E:", ".adds", "koreader">>, <<"E:", "koreader">>, <<"F:", "documents", "koreader">>,
              <<"C:", "koreader">> }
      [] sys = "Darwin" ->
            { <<"Volumes", "koreader">>, <<"Volumes", "KOReader">>, expanduser_koreader,
              <<"Applications", "koreader">> }
      [] sys = "Linux" ->
            { <<"media", "kobo", "koreader">>, <<"media", "kindle", "koreader">>,
              <<"mnt", "sd", "koreader">>, <<"opt", "koreader">> }
      [] OTHER -> { <<"opt", "koreader">> }

Markers == {"koreader.sh", "settings.reader.lua"}

Prefixes(path) == {SubSeq(path, 1, n) : n \in 1..Len(path)}

FileSystems(sys) ==
    LET leaves == CandidateDirs(sys) \cup {join(d, m) : d \in CandidateDirs(sys), m \in Markers}
    IN  {UNION {Prefixes(path) : path \in L} : L \in SUBSET leaves}

Probe(op, path, paths, ret) == [op |-> op, path |-> path, paths |-> paths, ret |-> ret]

DeviceIdle ==
    /\ system = "Linux"
    /\ fs = {}
    /\ probe = Probe("__init__", <<>>, <<>>, [kind |-> "none", value |-> <<>>])

-----------------------------------------------------------------------------
(* KOReaderStore.  A str is a TLA+ string; a catalog item is a dictionary with
   any of the keys name, description, stargazers_count and updated_at.  The
   Plugins tab is modelled; the Patches tab is laid out by the same code. *)

(* The printable ASCII characters in the order of their codes, 32 to 126; a
   tab holds the place of the backquote (96), which a TLA+ string cannot hold *)
Ascii ==
    " !\"#$%&'()*+,-./0123456789:;<=>?@ABCDEFGHIJKLMNOPQRSTUVWXYZ[\\]^_\tabcdefghijklmnopqrstuvwxyz{|}~"

chr(n) == SubSeq(Ascii, n - 31, n - 31)

Codes == [c \in {chr(n) : n \in 32..126} |-> CHOOSE n \in 32..126 : chr(n) = c]

ord(c) == Codes[c]

LowerCase == [c \in DOMAIN Codes |-> IF Codes[c] >= 65 /\ Codes[c] <= 90 THEN chr(Codes[c] + 32) ELSE c]

(* str.lower() *)
lower(s) ==
    LET RECURSIVE go(_)
        go(x) == IF Len(x) = 0 THEN "" ELSE LowerCase[Head(x)] \o go(Tail(x))
    IN  go(s)

startswith(s, prefix) == Len(prefix) <= Len(s) /\ SubSeq(s, 1, Len(prefix)) = prefix

(* sub in s *)
contains(s, sub) == \E i \in 0..Len(s) : startswith(SubSeq(s, i + 1, Len(s)), sub)

(* s.replace(old, new): every occurrence of old, from the left *)
replace(s, old, new) ==
    LET RECURSIVE go(_)
        go(x) == IF Len(x) = 0 THEN ""
                 ELSE IF startswith(x, old) THEN new \o go(SubSeq(x, Len(old) + 1, Len(x)))
                 ELSE Head(x) \o go(Tail(x))
    IN  go(s)

(* item.get(key) or default, for a key that holds a str *)
get_or(item, key, default) ==
    IF Has(item, key) /\ item[key] # "" THEN item[key] ELSE default

(* a < b on str: by the codes of the characters, a proper prefix first *)
str_lt(a, b) ==
    LET RECURSIVE lt(_, _)
        lt(x, y) == IF Len(y) = 0 THEN FALSE
                    ELSE IF Len(x) = 0 THEN TRUE
                    ELSE IF Head(x) = Head(y) THEN lt(Tail(x), Tail(y))
                    ELSE ord(Head(x)) < ord(Head(y))
    IN  lt(a, b)

(* int(s) of a str of decimal digits; -1 stands for ValueError *)
int(s) ==
    LET RECURSIVE val(_)
        val(x) == IF Len(x) = 0 THEN 0
                  ELSE val(SubSeq(x, 1, Len(x) - 1)) * 10 + (ord(SubSeq(x, Len(x), Len(x))) - 48)
    IN  IF Len(s) > 0 /\ \A i \in 1..Len(s) : contains("0123456789", SubSeq(s, i, i))
        THEN val(s)
        ELSE -1

(* date(year, month, day).toordinal(), 0 when there is no such date *)
toordinal(year, month, day) ==
    LET leap == year % 4 = 0 /\ (year % 100 # 0 \/ year % 400 = 0)
        days_in_month == << 31, IF leap THEN 29 ELSE 28, 31, 30, 31, 30, 31, 31, 30, 31, 30, 31 >>
        RECURSIVE days_before_month(_)
        days_before_month(m) == IF m = 1 THEN 0 ELSE days_before_month(m - 1) + days_in_month[m - 1]
        y == year - 1
    IN  IF year >= 1 /\ month \in 1..12 /\ day >= 1 /\ day <= days_in_month[month]
        THEN y * 365 + y \div 4 - y \div 100 + y \div 400 + days_before_month(month) + day
        ELSE 0

(* datetime.fromisoformat(s) for a str that may be YYYY-MM-DDTHH:MM:SS+00:00,
   the form of the catalog's timestamps once Z is replaced: the day and the
   second of the day in UTC, or raised *)
datetime_fromisoformat(s) ==
    LET field(a, b) == int(SubSeq(s, a, b))
        day == toordinal(field(1, 4), field(6, 7), field(9, 10))
        hour == field(12, 13)
        minute == field(15, 16)
        second == field(18, 19)
    IN  IF /\ Len(s) = 25
           /\ SubSeq(s, 5, 5) = "-" /\ SubSeq(s, 8, 8) = "-" /\ SubSeq(s, 11, 11) = "T"
           /\ SubSeq(s, 14, 14) = ":" /\ SubSeq(s, 17, 17) = ":" /\ SubSeq(s, 20, 25) = "+00:00"
           /\ field(1, 4) >= 1 /\ field(6, 7) >= 1 /\ field(9, 10) >= 1 /\ day > 0
           /\ hour \in 0..23 /\ minute \in 0..59 /\ second \in 0..59
        THEN [raised |-> FALSE, day |-> day, second |-> hour * 3600 + minute * 60 + second]
        ELSE [raised |-> TRUE, day |-> 0, second |-> 0]

(* datetime.now(tz) at time t of the model: midnight UTC, t fortnights after
   1 January 2026 *)
datetime_now(t) == [raised |-> FALSE, day |-> toordinal(2026, 1, 1) + 14 * t, second |-> 0]

(* (a - b).days *)
timedelta_days(a, b) == (a.day - b.day) - (IF b.second > a.second THEN 1 ELSE 0)

(* list.sort(key=...) by an order on the keys: before[i, j] when the key of
   l[i] sorts strictly before the key of l[j]; items whose keys are equal stay
   in order *)
sort(l, before) ==
    LET RECURSIVE go(_)
        go(n) ==
            IF n = 0 THEN <<>>
            ELSE LET done == go(n - 1)
                     stays(e) == ~before[n, e]
                     moves(e) == before[n, e]
                 IN  SelectSeq(done, stays) \o <<n>> \o SelectSeq(done, moves)
    IN  [i \in 1..Len(l) |-> l[go(Len(l))[i]]]

(* has_update of display_items without the test of installed_version *)
has_update_unversioned(item_name, installed, updates) ==
    IF installed /\ Has(updates, item_name)
    THEN TRUE
    ELSE IF installed
         THEN Has(updates, replace(item_name, ".koplugin", ""))
         ELSE FALSE

(* has_update as display_items computes it for one item *)
has_update_of(item_name, installed, updates) ==
    LET versioned(update_info) == Get(update_info, "installed_version", "Unknown") # "Unknown"
        clean_name == replace(item_name, ".koplugin", "")
    IN  IF installed /\ Has(updates, item_name)
        THEN versioned(updates[item_name])
        ELSE IF installed
             THEN IF Has(updates, clean_name) THEN versioned(updates[clean_name]) ELSE FALSE
             ELSE FALSE

(* display_items(items, layout, item_type): the cards added to the layout *)
display_items_result(items, w) ==
    LET PluginCard(item) ==
            LET item_name == get_or(item, "name", "Unknown")
                installed == item_name \in w.installed_plugins
            IN  [ data |-> item,
                  installed |-> installed,
                  has_update |-> has_update_of(item_name, installed, w.cached_updates),
                  is_favorite |-> item_name \in w.favorites ]
    IN  [i \in 1..Len(items) |-> PluginCard(items[i])]

(* the search filter of filter_items on the name alone *)
search_filter_name(item, query) ==
    contains(lower(get_or(item, "name", "")), query)

(* the search filter of filter_items: the item is kept *)
search_filter(item, query) ==
    ~(/\ ~contains(lower(get_or(item, "name", "")), query)
      /\ ~contains(lower(get_or(item, "description", "")), query))

(* the category filter of filter_items at time t: the item is kept *)
category_filter(item, category, t) ==
    IF category = "Top Rated" /\ Get(item, "stargazers_count", 0) < 50
    THEN FALSE
    ELSE IF category = "Recently Updated"
         THEN LET updated_str == Get(item, "updated_at", "")
                  updated == datetime_fromisoformat(replace(updated_str, "Z", "+00:00"))
              IN  IF updated_str # ""
                  THEN IF updated.raised
                       THEN FALSE
                       ELSE ~(timedelta_days(datetime_now(t), updated) > 30)
                  ELSE TRUE
         ELSE TRUE

(* the status filter of filter_items with Installed and Not Installed exchanged *)
status_filter_exchanged(item, status_option, w) ==
    LET item_name == get_or(item, "name", "")
        installed == item_name \in w.installed_plugins
        is_favorite == item_name \in w.favorites
    IN  IF status_option = "Favorites" /\ ~is_favorite
        THEN FALSE
        ELSE IF status_option = "Not Installed" /\ ~installed
             THEN FALSE
             ELSE IF status_option = "Installed" /\ installed
                  THEN FALSE
                  ELSE TRUE

(* the status filter of filter_items: the item is kept *)
status_filter(item, status_option, w) ==
    LET item_name == get_or(item, "name", "")
        installed == item_name \in w.installed_plugins
        is_favorite == item_name \in w.favorites
    IN  IF status_option = "Favorites" /\ ~is_favorite
        THEN FALSE
        ELSE IF status_option = "Installed" /\ ~installed
             THEN FALSE
             ELSE IF status_option = "Not Installed" /\ installed
                  THEN FALSE
                  ELSE TRUE

(* the sort of filter_items comparing names as they are written *)
sort_items_cased(filtered, sort_option) ==
    LET n == Len(filtered)
        stars(x) == Get(x, "stargazers_count", 0)
        updated_at(x) == Get(x, "updated_at", "")
        name(x) == Get(x, "name", "")
        by_stars == [i, j \in 1..n |-> stars(filtered[i]) > stars(filtered[j])]
        by_updated == [i, j \in 1..n |-> str_lt(updated_at(filtered[j]), updated_at(filtered[i]))]
        by_name == [i, j \in 1..n |-> str_lt(name(filtered[i]), name(filtered[j]))]
    IN  IF sort_option = "Stars" THEN sort(filtered, by_stars)
        ELSE IF sort_option = "Updated" THEN sort(filtered, by_updated)
        ELSE IF sort_option = "Name" THEN sort(filtered, by_name)
        ELSE filtered

(* the sort of filter_items *)
sort_items(filtered, sort_option) ==
    LET n == Len(filtered)
        stars(x) == Get(x, "stargazers_count", 0)
        updated_at(x) == Get(x, "updated_at", "")
        name(x) == lower(Get(x, "name", ""))
        by_stars == [i, j \in 1..n |-> stars(filtered[i]) > stars(filtered[j])]
        by_updated == [i, j \in 1..n |-> str_lt(updated_at(filtered[j]), updated_at(filtered[i]))]
        by_name == [i, j \in 1..n |-> str_lt(name(filtered[i]), name(filtered[j]))]
    IN  IF sort_option = "Stars" THEN sort(filtered, by_stars)
        ELSE IF sort_option = "Updated" THEN sort(filtered, by_updated)
        ELSE IF sort_option = "Name" THEN sort(filtered, by_name)
        ELSE filtered

(* filter_items that sorts self.plugins itself *)
filter_items_result_in_place(w, t) ==
    LET sorted == sort_items(w.plugins, w.sort_combo)
    IN  [w EXCEPT !.plugins = sorted, !.plugins_layout = display_items_result(sorted, w)]

(* filter_items() at time t: the window with the cards it lays out *)
filter_items_result(w, t) ==
    LET query == lower(w.search_input)
        keep(item) == /\ search_filter(item, query)
                      /\ category_filter(item, w.category_combo, t)
                      /\ status_filter(item, w.status_combo, w)
        filtered == SelectSeq(w.plugins, keep)
    IN  [w EXCEPT !.plugins_layout = display_items_result(sort_items(filtered, w.sort_combo), w)]

(* load_installed_plugins that does not clear the set first *)
load_installed_plugins_result_keeps(w, installed) ==
    IF w.plugin_installer = <<>>
    THEN w
    ELSE [w EXCEPT !.installed_plugins = @ \cup DOMAIN installed]

(* load_installed_plugins() when get_installed_plugins() returns installed *)
load_installed_plugins_result(w, installed) ==
    IF w.plugin_installer = <<>>
    THEN w
    ELSE [w EXCEPT !.installed_plugins = DOMAIN installed]

(* What detect_koreader_device, on_select and select_koreader_path do with the
   path they settle on *)
select_path(w, path, installed) ==
    load_installed_plugins_result([w EXCEPT !.koreader_path = path, !.plugin_installer = path],
                                  installed)

(* KOReaderStore.detect_koreader_device() when DeviceDetection returns found
   and, of a list, the user selects row current_row (0: no row, or Cancel) *)
detect_koreader_device_window(w, found, current_row, installed) ==
    CASE found.kind = "none" -> w
      [] found.kind = "path" -> select_path(w, found.value[1], installed)
      [] found.kind = "list" ->
            IF current_row \in 1..Len(found.value)
            THEN select_path(w, found.value[current_row], installed)
            ELSE w

(* KOReaderStore.__init__ with the favorites the cache holds, and init_ui *)
KOReaderStore(favorites) ==
    [ pc |-> "__init__",
      koreader_path |-> <<>>,
      plugin_installer |-> <<>>,               \* <<>>: the attribute is not set, __init__ does not assign it
      plugins |-> <<>>,
      patches |-> <<>>,
      installed_plugins |-> {},
      favorites |-> favorites,
      cached_updates |-> EmptyDict,
      search_input |-> "",
      category_combo |-> "All Categories",     \* the combo boxes' texts, without their emoji
      sort_combo |-> "Sort",
      status_combo |-> "Status",
      plugins_layout |-> <<>>,
      toggled |-> [data |-> EmptyDict, is_favorite |-> FALSE],     \* the arguments of the last toggle_favorite
      fetched |-> FALSE,                       \* self.api.search_repositories has been called
      installing |-> FALSE,                    \* an InstallWorker is running
      message_box |-> "",                      \* the title of the last QMessageBox shown
      raised |-> "" ]                          \* the exception that has escaped a handler

WindowIdle ==
    /\ window = KOReaderStore({})
    /\ inventory = EmptyDict

-----------------------------------------------------------------------------
(* The state of the cache *)

(* What may be on disk when the service is constructed: no file, a file that
   cannot be read as JSON, JSON that is no object, an object whose plugins or
   patches have no len(), and envelopes with and without their keys *)
Envelope(plugins, patches, favorites) ==
    Put(Put(Put(EmptyDict, "plugins", plugins), "patches", patches), "favorites", favorites)

InitDicts ==
    LET full == Envelope(<<"p2", "p1">>, <<"q1">>, <<"b", "a">>)
    IN  { EmptyDict,
          full,
          Put(full, "last_updated", isoformat(0)),
          Put(full, "last_updated", NotIso),
          Put(EmptyDict, "last_updated", isoformat(0)),
          Put(Put(EmptyDict, "favorites", <<"a">>), "last_updated", isoformat(1)) }

InitFiles ==
    {[kind |-> "missing", data |-> EmptyDict], Garbage, [kind |-> "scalar", data |-> EmptyDict]}
    \cup {[kind |-> "unsized", data |-> d] : d \in {EmptyDict, Put(EmptyDict, "last_updated", isoformat(0))}}
    \cup {json_dump(d) : d \in InitDicts}

(* call.again, kept for add_favorite and remove_favorite: the operation before
   this one, with no time between, was the same one with the same argument *)
Call(op, arg, ret, io, again) == [op |-> op, arg |-> arg, ret |-> ret, io |-> io, again |-> again]

Again(op, arg) == op \in {"add_favorite", "remove_favorite"} /\ call.op = op /\ call.arg = arg

NoCall == Call("none", "", "none", "none", FALSE)

(* CacheService.__init__: cache_data = {} and then load_cache() *)
Init ==
    /\ cache_file \in InitFiles
    /\ now = 0
    /\ LET r == load_cache_result(EmptyDict, cache_file, now)
       IN  /\ cache_data = r.cache_data
           /\ call = Call("__init__", "", r.ret, "none", FALSE)
    /\ just_saved = FALSE
    /\ DeviceIdle
    /\ WindowIdle

Tick ==
    /\ now < MaxTime
    /\ now' = now + 1
    /\ call' = NoCall
    /\ UNCHANGED <<cache_data, cache_file, just_saved>>
    /\ UNCHANGED <<dvars, wvars>>

load_cache ==
    LET r == load_cache_result(cache_data, cache_file, now)
    IN  /\ cache_data' = r.cache_data
        /\ call' = Call("load_cache", "", r.ret, "none", FALSE)
        /\ just_saved' = (just_saved /\ r.ret = "true")
        /\ UNCHANGED <<cache_file, now>>
        /\ UNCHANGED <<dvars, wvars>>

(* What an operation that ends in save_cache() does to the cache *)
CacheSaving(op, arg, d, io) ==
    LET r == save_cache_result(d, cache_file, now, io)
    IN  /\ cache_data' = r.cache_data
        /\ cache_file' = r.cache_file
        /\ call' = Call(op, arg, r.ret, io, Again(op, arg))
        /\ just_saved' = (r.ret = "true")
        /\ UNCHANGED now

(* The step of a CacheService operation that ends in save_cache() *)
Saving(op, arg, d, io) ==
    /\ CacheSaving(op, arg, d, io)
    /\ UNCHANGED <<dvars, wvars>>

save_cache == \E io \in IoOutcomes : Saving("save_cache", "", cache_data, io)

(* An operation that only changes cache_data *)
InMemory(op, arg, d, ret) ==
    /\ cache_data' = d
    /\ call' = Call(op, arg, ret, "none", FALSE)
    /\ just_saved' = FALSE
    /\ UNCHANGED <<cache_file, now>>
    /\ UNCHANGED <<dvars, wvars>>

(* An operation that only reads *)
Reading(op, arg, ret) ==
    /\ call' = Call(op, arg, ret, "none", FALSE)
    /\ UNCHANGED <<cache_data, cache_file, now, just_saved>>
    /\ UNCHANGED <<dvars, wvars>>

is_cache_expired == Reading("is_cache_expired", "", is_cache_expired_result(cache_data, now))

get_plugins == UNCHANGED vars

get_patches == UNCHANGED vars

get_favorites == UNCHANGED vars

get_cache_info == UNCHANGED vars

set_plugins ==
    \E plugins \in PluginLists :
        InMemory("set_plugins", "", set_plugins_result(cache_data, plugins), "none")

set_patches ==
    \E patches \in PatchLists :
        InMemory("set_patches", "", set_patches_result(cache_data, patches), "none")

(* set_favorites that also saves *)
set_favorites_saves ==
    \E favorites \in SUBSET Names, io \in IoOutcomes :
        \E d \in set_favorites_result(cache_data, favorites) :
            Saving("set_favorites", "", d, io)

set_favorites ==
    \E favorites \in SUBSET Names : \E d \in set_favorites_result(cache_data, favorites) :
        InMemory("set_favorites", "", d, "none")

clear_cache ==
    /\ cache_data' = EmptyDict
    /\ call' = Call("clear_cache", "", "none", "none", FALSE)
    /\ just_saved' = FALSE
    /\ UNCHANGED <<cache_file, now>>
    /\ UNCHANGED <<dvars, wvars>>

(* update_cache(plugins=None, patches=None): an argument is a set holding the
   list that was passed, or the empty set for None *)
Optional(V) == {{}} \cup {{v} : v \in V}

update_cache_data(d, plugins, patches) ==
    LET d1 == IF plugins # {} THEN set_plugins_result(d, CHOOSE v \in plugins : TRUE) ELSE d
    IN  IF patches # {} THEN set_patches_result(d1, CHOOSE v \in patches : TRUE) ELSE d1

update_cache ==
    \E plugins \in Optional(PluginLists), patches \in Optional(PatchLists), io \in IoOutcomes :
        Saving("update_cache", "", update_cache_data(cache_data, plugins, patches), io)

add_favorite ==
    \E plugin_name \in Names, io \in IoOutcomes :
        \E d \in set_favorites_result(cache_data, add_favorite_set(cache_data, plugin_name)) :
            Saving("add_favorite", plugin_name, d, io)

remove_favorite ==
    \E plugin_name \in Names, io \in IoOutcomes :
        \E d \in set_favorites_result(cache_data, remove_favorite_set(cache_data, plugin_name)) :
            Saving("remove_favorite", plugin_name, d, io)

Next ==
    \/ Tick
    \/ load_cache
    \/ save_cache
    \/ is_cache_expired
    \/ get_plugins
    \/ get_patches
    \/ get_favorites
    \/ get_cache_info
    \/ set_plugins
    \/ set_patches
    \/ set_favorites
    \/ clear_cache
    \/ update_cache
    \/ add_favorite
    \/ remove_favorite

Spec == Init /\ [][Next]_vars

-----------------------------------------------------------------------------
(* The device locator on its own: DeviceDetection() on any of the platforms and
   file systems, and then its operations *)

CacheIdle ==
    /\ cache_file = [kind |-> "missing", data |-> EmptyDict]
    /\ now = 0
    /\ cache_data = EmptyDict
    /\ call = Call("__init__", "", "false", "none", FALSE)
    /\ just_saved = FALSE

InitDevice ==
    /\ system \in Systems
    /\ fs \in FileSystems(system)
    /\ probe = Probe("__init__", <<>>, <<>>, [kind |-> "none", value |-> <<>>])
    /\ CacheIdle
    /\ WindowIdle

Probing(op, path, paths, ret) ==
    /\ probe' = Probe(op, path, paths, ret)
    /\ UNCHANGED <<system, fs>>
    /\ UNCHANGED <<cvars, wvars>>

call_has_koreader ==
    \E path \in CandidateDirs(system) :
        Probing("_has_koreader", path, <<>>, [kind |-> Bool(has_koreader(fs, path)), value |-> <<>>])

get_koreader_paths ==
    \E paths \in get_koreader_paths_results(system, fs) :
        Probing("get_koreader_paths", <<>>, paths, [kind |-> "list", value |-> paths])

detect_koreader_device ==
    \E possible_paths \in get_koreader_paths_results(system, fs) :
        Probing("detect_koreader_device", <<>>, possible_paths,
                detect_koreader_device_result(possible_paths))

NextDevice ==
    \/ call_has_koreader
    \/ get_koreader_paths
    \/ detect_koreader_device

SpecDevice == InitDevice /\ [][NextDevice]_vars


-----------------------------------------------------------------------------
(* Validation and description of an installation: one directory that is absent
   or holds any of the entries the two operations look at *)

InstallDir == <<"opt", "koreader">>

InstallEntries ==
    {"koreader.sh", "settings.reader.lua", "frontend", "plugins", "data", "git-rev", "patches"}

InstallFileSystems ==
    {{}, {<<"opt">>}} \cup
    {Prefixes(InstallDir) \cup {join(InstallDir, e) : e \in E} : E \in SUBSET InstallEntries}

InstallPaths == {InstallDir, <<"media", "koreader">>}

VersionFiles == {"v1", " v1\n", "\n", ""}

InitInstall ==
    /\ system \in Systems
    /\ fs \in InstallFileSystems
    /\ probe = Probe("__init__", <<>>, <<>>, [kind |-> "none", value |-> <<>>])
    /\ CacheIdle
    /\ WindowIdle

validate_koreader_installation ==
    \E path \in InstallPaths :
        Probing("validate_koreader_installation", path, <<>>,
                [kind |-> Bool(validate_koreader_installation_result(fs, path)), value |-> <<>>])

get_device_info ==
    \E koreader_path \in InstallPaths, io \in ReadOutcomes, content \in VersionFiles :
        Probing("get_device_info", koreader_path, <<>>,
                [kind |-> "dict", io |-> io, content |-> content,
                 value |-> get_device_info_result(system, fs, koreader_path, io, content)])

NextInstall ==
    \/ validate_koreader_installation
    \/ get_device_info

SpecInstall == InitInstall /\ [][NextInstall]_vars

-----------------------------------------------------------------------------
(* The filter and sort pipeline on its own: a window that has laid out a
   catalog, and then the signals of the search box and the three combo boxes,
   each of which runs filter_items *)

FilterItems ==
    [ foo |-> [name |-> "Foo.koplugin", description |-> "Reader tool", stargazers_count |-> 60,
               updated_at |-> "2026-01-13T00:00:00Z"],
      bar |-> [name |-> "bar", description |-> "food", stargazers_count |-> 50,
               updated_at |-> "2026-01-12T00:00:00Z"],
      Bar |-> [name |-> "Bar", stargazers_count |-> 10, updated_at |-> "2026-01-01T00:00:00Z"],
      nameless |-> [description |-> "Foo reader"],
      apple |-> [name |-> "apple", description |-> "", stargazers_count |-> 50,
                 updated_at |-> "yesterday"],
      cat |-> [name |-> "cat", stargazers_count |-> 60, updated_at |-> "2026-01-12T00:00:00Z"] ]

FilterCatalogs ==
    LET i == FilterItems
    IN  { <<i.foo, i.bar, i.Bar>>, <<i.Bar, i.bar, i.apple>>, <<i.bar, i.Bar, i.cat>>,
          <<i.nameless, i.apple, i.foo>>, <<i.cat, i.bar, i.nameless>>, <<i.apple, i.nameless>>,
          <<i.Bar, i.foo, i.cat>> }

FilterInventories ==
    {EmptyDict, [n \in {"bar", "Foo.koplugin"} |-> IF n = "bar" THEN "1.0" ELSE "Unknown"]}

FilterFavorites == {{}, {"Bar", "apple"}}

(* self.display_items(self.plugins, self.plugins_layout, "plugin") *)
display_plugins(w) == [w EXCEPT !.plugins_layout = display_items_result(w.plugins, w)]

InitFilter ==
    /\ inventory \in FilterInventories
    /\ \E items \in FilterCatalogs, favorites \in FilterFavorites :
            window = display_plugins([KOReaderStore(favorites) EXCEPT
                                            !.pc = "ready",
                                            !.plugins = items,
                                            !.installed_plugins = DOMAIN inventory])
    /\ now \in 0..MaxTime
    /\ cache_file = [kind |-> "missing", data |-> EmptyDict]
    /\ cache_data = EmptyDict
    /\ call = NoCall
    /\ just_saved = FALSE
    /\ DeviceIdle

(* A signal connected to filter_items, after the widget has taken its text *)
Filtering(w) ==
    /\ window' = filter_items_result(w, now)
    /\ UNCHANGED <<cvars, dvars, inventory>>

search_input_textChanged ==
    \E text \in {"", "foo", "READ"} : Filtering([window EXCEPT !.search_input = text])

category_combo_currentTextChanged ==
    \E text \in {"All Categories", "Top Rated", "Recently Updated"} :
        Filtering([window EXCEPT !.category_combo = text])

sort_combo_currentTextChanged ==
    \E text \in {"Sort", "Stars", "Updated", "Name"} :
        Filtering([window EXCEPT !.sort_combo = text])

status_combo_currentTextChanged ==
    \E text \in {"Status", "Favorites", "Installed", "Updates Available", "Not Installed"} :
        Filtering([window EXCEPT !.status_combo = text])

NextFilter ==
    \/ search_input_textChanged
    \/ category_combo_currentTextChanged
    \/ sort_combo_currentTextChanged
    \/ status_combo_currentTextChanged

SpecFilter == InitFilter /\ [][NextFilter]_vars

-----------------------------------------------------------------------------
(* The main window: constructed over a cache file, a file system and a device
   inventory, initialised in the background, and then used *)

WindowItems ==
    [ a |-> [name |-> "a.koplugin", repo_type |-> "plugin"],
      aa |-> [name |-> "a.koplugin.koplugin", repo_type |-> "plugin"],
      nameless |-> [description |-> "reader", repo_type |-> "plugin"],
      q |-> [name |-> "q", repo_type |-> "patch"] ]

(* The cache files of the window: none, and envelopes written at time 0 with
   a catalog or with plugins alone *)
WindowFiles ==
    LET i == WindowItems
    IN  { [kind |-> "missing", data |-> EmptyDict],
          json_dump(Put(Envelope(<<i.a, i.nameless>>, <<i.q>>, <<"a.koplugin">>),
                        "last_updated", isoformat(0))),
          json_dump(Put(Put(EmptyDict, "plugins", <<i.aa>>), "last_updated", isoformat(0))) }

(* What the two searches of load_data return: a list each, or raised *)
Fetches ==
    LET i == WindowItems
    IN  { [raised |-> 1, plugins |-> <<>>, patches |-> <<>>],
          [raised |-> 2, plugins |-> <<i.aa, i.q, i.a>>, patches |-> <<>>],
          [raised |-> 0, plugins |-> <<i.aa, i.q, i.a>>, patches |-> <<i.q>>] }

WindowFileSystems ==
    LET kobo == <<"media", "kobo", "koreader">>
        sd == <<"mnt", "sd", "koreader">>
        device(d) == Prefixes(join(d, "koreader.sh"))
    IN  { {}, device(kobo), device(kobo) \cup device(sd) }

WindowInventories ==
    { EmptyDict,
      [n \in {"a.koplugin"} |-> "1.0"],
      [n \in {"a.koplugin", "a.koplugin.koplugin"} |-> IF n = "a.koplugin" THEN "Unknown" ELSE "1.0"] }

(* What update_service.check_for_updates may return: records under any of
   two names, with an installed version, the sentinel, or none *)
UpdateMaps ==
    LET records == { [installed_version |-> "1.0", latest_version |-> "2.0"],
                     [installed_version |-> "Unknown", latest_version |-> "2.0"],
                     [latest_version |-> "2.0"] }
    IN  UNION { [keys -> records] : keys \in SUBSET {"a", "a.koplugin"} }

(* The window once a catalog is laid out and a device is in use *)
InitUpdates ==
    /\ inventory \in WindowInventories
    /\ \E items \in {<<WindowItems.a, WindowItems.aa>>, <<WindowItems.nameless, WindowItems.a>>} :
            window = display_plugins([KOReaderStore({}) EXCEPT
                                            !.pc = "ready",
                                            !.koreader_path = <<"media", "kobo", "koreader">>,
                                            !.plugin_installer = <<"media", "kobo", "koreader">>,
                                            !.plugins = items,
                                            !.installed_plugins = DOMAIN inventory])
    /\ CacheIdle
    /\ DeviceIdle

InitWindow ==
    /\ cache_file \in WindowFiles
    /\ now = 0
    /\ LET r == load_cache_result(EmptyDict, cache_file, now)
       IN  /\ cache_data = r.cache_data
           /\ call = Call("__init__", "", r.ret, "none", FALSE)
    /\ just_saved = FALSE
    /\ system = "Linux"
    /\ fs \in WindowFileSystems
    /\ probe = Probe("__init__", <<>>, <<>>, [kind |-> "none", value |-> <<>>])
    /\ inventory \in WindowInventories
    /\ window = KOReaderStore(get_favorites_result(cache_data))

(* load_data() once the cache is found expired, when the searches return
   fetch: the window, and whether update_cache is reached *)
load_data_fetched(w, fetch) ==
    LET plugin(p) == Get(p, "repo_type", "") = "plugin"
        patch(p) == Get(p, "repo_type", "") = "patch"
    IN  CASE fetch.raised = 1 -> [window |-> [w EXCEPT !.message_box = "Warning"], saves |-> FALSE]
          [] fetch.raised = 2 ->
                [ window |-> [w EXCEPT !.plugins = fetch.plugins, !.message_box = "Warning"],
                  saves |-> FALSE ]
          [] OTHER ->
                [ window |-> display_plugins([w EXCEPT !.plugins = SelectSeq(fetch.plugins, plugin),
                                                       !.patches = SelectSeq(fetch.patches, patch)]),
                  saves |-> TRUE ]

(* load_data() that uses the cache *)
load_data_cached(w) ==
    display_plugins([w EXCEPT !.plugins = get_plugins_result(cache_data),
                              !.patches = get_patches_result(cache_data)])

background_init ==
    /\ window.pc = "__init__"
    /\ \E possible_paths \in get_koreader_paths_results(system, fs), current_row \in 0..2,
          fetch \in Fetches, io \in IoOutcomes :
            LET found == detect_koreader_device_result(possible_paths)
                w0 == [window EXCEPT !.pc = "background_init"]
                w1 == IF get_plugins_result(cache_data) # <<>> /\ get_patches_result(cache_data) # <<>>
                      THEN load_data_cached(w0)
                      ELSE w0
                w2 == detect_koreader_device_window(w1, found, current_row, inventory)
                loaded == load_data_fetched(w2, fetch)
            IN  /\ probe' = Probe("detect_koreader_device", <<>>, possible_paths, found)
                /\ IF w2.plugins # <<>> /\ w2.patches # <<>>
                   THEN window' = w2 /\ UNCHANGED cvars
                   ELSE IF is_cache_expired_result(cache_data, now) = "false"
                        THEN window' = load_data_cached(w2) /\ UNCHANGED cvars
                        ELSE /\ window' = [loaded.window EXCEPT !.fetched = TRUE]
                             /\ IF loaded.saves
                                THEN CacheSaving("update_cache", "",
                                                 update_cache_data(cache_data, {loaded.window.plugins},
                                                                   {loaded.window.patches}), io)
                                ELSE UNCHANGED cvars
    /\ UNCHANGED <<system, fs, inventory>>

(* toggle_favorite that leaves the cache service out *)
toggle_favorite_window_only ==
    /\ window.pc # "__init__"
    /\ \E i \in 1..Len(window.plugins_layout) :
            LET data == window.plugins_layout[i].data
                is_favorite == ~window.plugins_layout[i].is_favorite
                plugin_name == Get(data, "name", "")
            IN  window' = filter_items_result(
                            [window EXCEPT !.pc = "toggle_favorite",
                                           !.toggled = [data |-> data, is_favorite |-> is_favorite],
                                           !.favorites = IF is_favorite THEN @ \cup {plugin_name}
                                                                        ELSE @ \ {plugin_name}], now)
    /\ UNCHANGED <<cvars, dvars, inventory>>

(* The Refresh button: load_data(force_refresh=True) *)
refresh_btn_clicked ==
    /\ window.pc # "__init__"
    /\ \E fetch \in Fetches :
            LET loaded == load_data_fetched([window EXCEPT !.pc = "ready", !.fetched = TRUE], fetch)
            IN  /\ window' = loaded.window
                /\ IF loaded.saves
                   THEN \E io \in IoOutcomes :
                            CacheSaving("update_cache", "",
                                        update_cache_data(cache_data, {window'.plugins},
                                                          {window'.patches}), io)
                   ELSE UNCHANGED cvars
    /\ UNCHANGED <<dvars, inventory>>

(* A click on the favorite button of a card that is laid out *)
toggle_favorite ==
    /\ window.pc # "__init__"
    /\ \E i \in 1..Len(window.plugins_layout) :
            LET data == window.plugins_layout[i].data
                is_favorite == ~window.plugins_layout[i].is_favorite
                plugin_name == Get(data, "name", "")
                w == [window EXCEPT !.pc = "toggle_favorite",
                                    !.toggled = [data |-> data, is_favorite |-> is_favorite],
                                    !.favorites = IF is_favorite THEN @ \cup {plugin_name}
                                                                 ELSE @ \ {plugin_name}]
                cached == IF is_favorite THEN add_favorite_set(cache_data, plugin_name)
                                         ELSE remove_favorite_set(cache_data, plugin_name)
            IN  /\ window' = filter_items_result(w, now)
                /\ \E d \in set_favorites_result(cache_data, cached), io \in IoOutcomes :
                        CacheSaving(IF is_favorite THEN "add_favorite" ELSE "remove_favorite",
                                    plugin_name, d, io)
    /\ UNCHANGED <<dvars, inventory>>

(* The Check Updates button; the update service returns a map or raises *)
check_for_updates ==
    /\ window.pc # "__init__"
    /\ IF window.installed_plugins = {}
       THEN window' = [window EXCEPT !.pc = "ready", !.message_box = "Info"]
       ELSE \/ \E updates \in UpdateMaps :
                    window' = filter_items_result(
                                [window EXCEPT !.pc = "ready",
                                               !.cached_updates = updates,
                                               !.message_box = IF DOMAIN updates # {}
                                                               THEN "Updates Available"
                                                               ELSE "No Updates"], now)
            \/ window' = [window EXCEPT !.pc = "ready", !.message_box = "Error"]
    /\ UNCHANGED <<cvars, dvars, inventory>>

(* A click on the install button of a card of the plugins tab; the button is
   enabled when the item is not installed or has an update *)
install_item ==
    /\ window.pc # "__init__"
    /\ \E i \in 1..Len(window.plugins_layout) :
            ~window.plugins_layout[i].installed \/ window.plugins_layout[i].has_update
    /\ window' = IF window.plugin_installer = <<>>
                 THEN [window EXCEPT !.pc = "install_item", !.raised = "AttributeError"]
                 ELSE [window EXCEPT !.pc = "install_item", !.installing = TRUE]
    /\ UNCHANGED <<cvars, dvars, inventory>>

(* The installation worker has finished: it has left the device with some
   inventory and reports success or failure *)
install_finished ==
    /\ window.installing
    /\ inventory' \in WindowInventories
    /\ \E success \in BOOLEAN :
            LET w == [window EXCEPT !.pc = "ready", !.installing = FALSE,
                                    !.message_box = IF success THEN "Success" ELSE "Error"]
            IN  window' = IF success
                          THEN filter_items_result(load_installed_plugins_result(w, inventory'), now)
                          ELSE w
    /\ UNCHANGED <<cvars, dvars>>

(* The Choose Path button and the directory the user picks, with the
   inventory the installer finds under it *)
select_koreader_path ==
    /\ window.pc # "__init__"
    /\ inventory' \in WindowInventories
    /\ window' = select_path([window EXCEPT !.pc = "ready"],
                             <<"media", "kobo", "koreader">>, inventory')
    /\ UNCHANGED <<cvars, dvars>>

NextWindow ==
    \/ background_init
    \/ toggle_favorite
    \/ select_koreader_path

SpecWindow == InitWindow /\ [][NextWindow]_vars

NextInventory ==
    \/ background_init
    \/ select_koreader_path
    \/ install_item
    \/ install_finished

SpecInventory == InitWindow /\ [][NextInventory]_vars

(* The window with no device in reach: favorites and catalog alone *)
InitFavorites ==
    /\ InitWindow
    /\ fs = {}
    /\ inventory = EmptyDict

NextFavorites ==
    \/ background_init
    \/ toggle_favorite
    \/ refresh_btn_clicked

SpecFavorites == InitFavorites /\ [][NextFavorites]_vars

NextUpdates ==
    \/ check_for_updates
    \/ install_item
    \/ install_finished
    \/ status_combo_currentTextChanged

SpecUpdates == InitUpdates /\ [][NextUpdates]_vars

-----------------------------------------------------------------------------
(* is_cache_expired on its own: on any object json.load may have put in
   cache_data (load_cache calls it on what it has just read), at any time *)

Stamps == {isoformat(t) : t \in 0..MaxTime} \cup {NotIso}

JsonEnvelopes ==
    LET bodies == { EmptyDict, Put(EmptyDict, "favorites", <<"a">>),
                    Envelope(<<"p2", "p1">>, <<"q1">>, <<"b", "a">>) }
    IN  bodies \cup {Put(d, "last_updated", s) : d \in bodies, s \in Stamps}

InitExpiry ==
    /\ cache_data \in JsonEnvelopes
    /\ now \in 0..MaxTime
    /\ cache_file = [kind |-> "missing", data |-> EmptyDict]
    /\ call = NoCall
    /\ just_saved = FALSE
    /\ DeviceIdle
    /\ WindowIdle

NextExpiry ==
    \/ is_cache_expired
    \/ Tick

SpecExpiry == InitExpiry /\ [][NextExpiry]_vars

-----------------------------------------------------------------------------
(* The properties *)

Stamp(d) == d["last_updated"]

Parses(d) == Has(d, "last_updated") /\ Stamp(d).iso

Age(d) == now - Stamp(d).at

ContentKeys == {"plugins", "patches", "favorites"}

SameContent(d1, d2) ==
    \A k \in ContentKeys : (Has(d1, k) <=> Has(d2, k)) /\ (Has(d1, k) => d1[k] = d2[k])

SavingOps == {"save_cache", "update_cache", "add_favorite", "remove_favorite"}

FileMissing == cache_file.kind = "missing"

FileMalformed ==
    \/ cache_file.kind \in {"garbage", "scalar", "unsized"}
    \/ cache_file.kind = "dict" /\ ~Parses(cache_file.data)

FileStale == cache_file.kind = "dict" /\ Parses(cache_file.data) /\ Age(cache_file.data) > cache_duration

(* C1: load (also the one the constructor does) returns false and leaves the
   envelope empty when the file is missing, malformed (not an envelope, or an
   envelope without a readable timestamp) or older than the duration; otherwise
   it returns true and the envelope is the stored one; it never raises. *)
C1_LoadContract ==
    call.op \in {"__init__", "load_cache"} =>
        /\ call.ret \in {"true", "false"}
        /\ IF FileMissing \/ FileMalformed \/ FileStale
           THEN call.ret = "false" /\ cache_data = EmptyDict
           ELSE call.ret = "true" /\ cache_data = cache_file.data

C1_Witness ==
    /\ call.op = "load_cache"
    /\ call.ret = "false"
    /\ FileStale
    /\ Has(cache_file.data, "plugins")
    /\ cache_data = EmptyDict

(* C2, as stated: is_cache_expired is true iff now - timestamp >= duration, so
   an envelope stamped exactly now - duration is expired. *)
C2_Original ==
    (call.op = "is_cache_expired" /\ Parses(cache_data)) =>
        (call.ret = "true" <=> Age(cache_data) >= cache_duration)

(* C2, amended: is_cache_expired is true iff now - timestamp > duration: an
   envelope stamped exactly now - duration is not expired, nor is one stamped a
   unit later; one stamped a unit earlier is. *)
C2_ExpiryBoundary ==
    (call.op = "is_cache_expired" /\ Parses(cache_data)) =>
        /\ call.ret = "true" <=> Age(cache_data) > cache_duration
        /\ Age(cache_data) = cache_duration => call.ret = "false"
        /\ Age(cache_data) = cache_duration - 1 => call.ret = "false"
        /\ Age(cache_data) = cache_duration + 1 => call.ret = "true"

C2_Witness ==
    /\ call.op = "is_cache_expired"
    /\ Parses(cache_data)
    /\ Age(cache_data) = cache_duration
    /\ call.ret = "false"

(* C3: a load that follows a successful save, no later than the duration after
   it, returns true with the plugins, the patches and the favorite set that
   were saved. *)
C3_RoundTrip ==
    [][ (just_saved /\ call'.op = "load_cache" /\ Age(cache_data) <= cache_duration) =>
            /\ call'.ret = "true"
            /\ get_plugins_result(cache_data') = get_plugins_result(cache_data)
            /\ get_patches_result(cache_data') = get_patches_result(cache_data)
            /\ get_favorites_result(cache_data') = get_favorites_result(cache_data) ]_vars

C3_Witness ==
    /\ call.op = "load_cache"
    /\ call.ret = "true"
    /\ just_saved
    /\ Age(cache_data) > 0
    /\ get_plugins_result(cache_data) = <<"p2", "p1">>
    /\ get_patches_result(cache_data) = <<"q1">>
    /\ get_favorites_result(cache_data) = {"a", "b"}

(* C4: a save_cache whose write fails returns false (it does not raise) and
   leaves plugins, patches and favorites of the envelope as they were. *)
C4_SaveFailure ==
    [][ (call'.op = "save_cache" /\ call'.io \in {"open_fails", "write_fails"}) =>
            /\ call'.ret = "false"
            /\ SameContent(cache_data, cache_data') ]_vars

C4_Witness ==
    /\ call.op = "save_cache"
    /\ call.io = "write_fails"
    /\ call.ret = "false"
    /\ cache_file = Garbage
    /\ get_plugins_result(cache_data) = <<"p2", "p1">>
    /\ get_favorites_result(cache_data) = {"a", "b"}

(* C5: add_favorite(x) right after add_favorite(x) leaves the favorite set as
   the first left it, with x in it; remove_favorite(x) for an x that is not a
   favorite leaves the favorite set as it was. *)
C5_FavoriteIdempotence ==
    [][ /\ (call'.op = "add_favorite" /\ call'.again) =>
                /\ call'.arg \in get_favorites_result(cache_data')
                /\ get_favorites_result(cache_data') = get_favorites_result(cache_data)
        /\ (call'.op = "remove_favorite" /\ call'.arg \notin get_favorites_result(cache_data)) =>
                get_favorites_result(cache_data') = get_favorites_result(cache_data) ]_vars

C5_Witness ==
    /\ call.op = "add_favorite"
    /\ call.again
    /\ call.arg = "a"
    /\ get_favorites_result(cache_data) = {"a", "b"}

(* C6: add_favorite and remove_favorite change the favorite set and then try to
   save (a save that succeeds writes the changed envelope); of the other
   operations only save_cache and update_cache write the file: set_favorites,
   set_plugins, set_patches, the getters, is_cache_expired and get_cache_info
   leave it as it is. *)
C6_ImplicitSave ==
    /\ [](call.op = "add_favorite" =>
            call.io \in IoOutcomes /\ call.arg \in get_favorites_result(cache_data))
    /\ [](call.op = "remove_favorite" =>
            call.io \in IoOutcomes /\ call.arg \notin get_favorites_result(cache_data))
    /\ []((call.op \in {"add_favorite", "remove_favorite"} /\ call.io = "ok") =>
            cache_file = json_dump(cache_data))
    /\ [][ /\ call'.op \in {"set_favorites", "set_plugins", "set_patches", "is_cache_expired"} =>
                call'.io = "none" /\ cache_file' = cache_file
           /\ (get_plugins \/ get_patches \/ get_favorites \/ get_cache_info) =>
                cache_file' = cache_file
           /\ cache_file' # cache_file => call'.op \in SavingOps ]_vars

C6_Witness ==
    /\ call.op = "remove_favorite"
    /\ call.arg = "a"
    /\ call.io = "ok"
    /\ get_favorites_result(cache_data) = {"b"}
    /\ cache_file = json_dump(cache_data)

(* C7: is_cache_expired returns true or false (it never raises), its result is
   fixed by the timestamp, the duration and the time (true when the timestamp
   is absent or does not parse, else whether its age exceeds the duration), and
   it leaves envelope and file as they are. *)
C7_IsExpired ==
    /\ [](call.op = "is_cache_expired" =>
            /\ call.ret \in {"true", "false"}
            /\ call.ret = "true" <=>
                    (~Has(cache_data, "last_updated") \/ ~Parses(cache_data)
                        \/ Age(cache_data) > cache_duration))
    /\ [][ call'.op = "is_cache_expired" =>
                cache_data' = cache_data /\ cache_file' = cache_file ]_vars

C7_Witness ==
    /\ call.op = "is_cache_expired"
    /\ Has(cache_data, "last_updated")
    /\ ~Parses(cache_data)
    /\ Has(cache_data, "plugins")
    /\ call.ret = "true"

(* C8, as stated: the timestamp is absent only if the envelope has never been
   saved, that is, a timestamp the envelope has got stays. *)
C8_Original ==
    [][ Has(cache_data, "last_updated") => Has(cache_data', "last_updated") ]_vars

(* C8, amended: the timestamp is absent only if the envelope has not been saved
   since it was last emptied, by clear_cache or by a load that returned false:
   every save attempt leaves a timestamp, and only those two take it away; an
   envelope without a timestamp is reported as expired. *)
C8_EnvelopeInvariant ==
    /\ [](~Has(cache_data, "last_updated") => is_cache_expired_result(cache_data, now) = "true")
    /\ []((call.op = "is_cache_expired" /\ ~Has(cache_data, "last_updated")) => call.ret = "true")
    /\ [](call.op \in SavingOps => Has(cache_data, "last_updated"))
    /\ [][ (Has(cache_data, "last_updated") /\ ~Has(cache_data', "last_updated")) =>
                \/ call'.op = "clear_cache"
                \/ call'.op = "load_cache" /\ call'.ret = "false" ]_vars

C8_Witness ==
    /\ call.op = "clear_cache"
    /\ ~Has(cache_data, "last_updated")
    /\ cache_file.kind = "dict"
    /\ Parses(cache_file.data)
    /\ Stamp(cache_file.data).at = now
    /\ now >= 2

(* C9: detect_koreader_device returns none for no candidate path, the path for
   one, and for two or more the list of them as get_koreader_paths gave it. *)
C9_DetectDevice ==
    probe.op = "detect_koreader_device" =>
        /\ probe.paths \in get_koreader_paths_results(system, fs)
        /\ Len(probe.paths) = 0 => probe.ret = [kind |-> "none", value |-> <<>>]
        /\ Len(probe.paths) = 1 => probe.ret = [kind |-> "path", value |-> <<probe.paths[1]>>]
        /\ Len(probe.paths) >= 2 => probe.ret = [kind |-> "list", value |-> probe.paths]

C9_Witness ==
    /\ probe.op = "detect_koreader_device"
    /\ probe.ret.kind = "list"
    /\ Len(probe.ret.value) = 3
    /\ probe.ret.value = probe.paths

MarkerPresent(path) ==
    join(path, "koreader.sh") \in fs \/ join(path, "settings.reader.lua") \in fs

(* C10: _has_koreader(path) is true iff koreader.sh or settings.reader.lua
   exists in path, and every path get_koreader_paths returns has one of them. *)
C10_MarkerPresent ==
    /\ probe.op = "_has_koreader" => (probe.ret.kind = "true" <=> MarkerPresent(probe.path))
    /\ probe.op = "get_koreader_paths" =>
            \A i \in 1..Len(probe.paths) : MarkerPresent(probe.paths[i])

C10_Witness ==
    /\ probe.op = "get_koreader_paths"
    /\ Len(probe.paths) >= 2
    /\ \E i \in 1..Len(probe.paths) : join(probe.paths[i], "koreader.sh") \notin fs
    /\ \E d \in CandidateDirs(system) : d \in fs /\ ~MarkerPresent(d)

EssentialsPresent(path) ==
    /\ path \in fs
    /\ join(path, "koreader.sh") \in fs
    /\ join(path, "frontend") \in fs
    /\ join(path, "plugins") \in fs
    /\ join(path, "data") \in fs

OnlySettingsFile(path) ==
    \A e \in InstallEntries : join(path, e) \in fs <=> e = "settings.reader.lua"

(* C11: validate_koreader_installation(path) is true iff the path exists and
   koreader.sh, frontend, plugins and data all exist under it; a path holding
   only settings.reader.lua has a marker and fails validation. *)
C11_Validate ==
    probe.op = "validate_koreader_installation" =>
        /\ probe.ret.kind = "true" <=> EssentialsPresent(probe.path)
        /\ OnlySettingsFile(probe.path) =>
                has_koreader(fs, probe.path) /\ probe.ret.kind = "false"

C11_Witness ==
    /\ probe.op = "validate_koreader_installation"
    /\ OnlySettingsFile(probe.path)
    /\ MarkerPresent(probe.path)
    /\ probe.ret.kind = "false"

InfoKeys == {"path", "valid", "version", "plugins_exist", "patches_exist"}

(* C12: get_device_info(path) returns, for every path, a record holding path,
   valid, version, plugins_exist and patches_exist, whose version is "Unknown"
   unless git-rev was read successfully. *)
C12_DeviceInfo ==
    probe.op = "get_device_info" =>
        /\ InfoKeys \subseteq DOMAIN probe.ret.value
        /\ probe.ret.value["path"] = probe.path
        /\ probe.ret.value["valid"] = EssentialsPresent(probe.path)
        /\ probe.ret.value["version"] # "Unknown" =>
                join(probe.path, "git-rev") \in fs /\ probe.ret.io = "ok"

(* The items of the cards laid out, in their order *)
Shown == [i \in 1..Len(window.plugins_layout) |-> window.plugins_layout[i].data]

TextOf(item, key) == IF Has(item, key) THEN item[key] ELSE ""

(* q occurs in s when the case of letters is ignored *)
FoundIn(q, s) ==
    LET letter(c) == ord(c) \in 65..90 \/ ord(c) \in 97..122
        same(a, b) == a = b \/ (letter(a) /\ letter(b) /\ (ord(a) - ord(b)) \in {32, -32})
    IN  \E i \in 0..(Len(s) - Len(q)) :
            \A k \in 1..Len(q) : same(SubSeq(q, k, k), SubSeq(s, i + k, i + k))

NoSearch == window.search_input = ""

NoCategory == window.category_combo = "All Categories"

NoStatus == window.status_combo = "Status"

NoSort == window.sort_combo = "Sort"

(* C15: an item passes the text filter iff the query, case ignored, occurs in
   its name or in its description; the empty query passes every item, also
   one without a name or a description. *)
C15_TextFilter ==
    LET matches(item) == \/ FoundIn(window.search_input, TextOf(item, "name"))
                         \/ FoundIn(window.search_input, TextOf(item, "description"))
    IN  /\ \A i \in 1..Len(Shown) : matches(Shown[i])
        /\ NoCategory /\ NoStatus /\ NoSort => Shown = SelectSeq(window.plugins, matches)
        /\ NoSearch /\ NoCategory /\ NoStatus /\ NoSort => Shown = window.plugins

C15_Witness ==
    /\ window.search_input = "READ"
    /\ NoCategory /\ NoStatus /\ NoSort
    /\ Len(Shown) = 2
    /\ Len(window.plugins) = 3
    /\ \E i \in 1..2 : ~Has(Shown[i], "name")
    /\ \E i \in 1..2 : Has(Shown[i], "name") /\ ~FoundIn("READ", TextOf(Shown[i], "name"))

(* C16: "Top Rated" keeps exactly the items with stargazers_count >= 50, and
   "Recently Updated" exactly the items whose updated_at parses and is at most
   30 days old; an item whose updated_at is missing or does not parse is
   discarded. *)
C16_CategoryFilter ==
    LET top(item) == Has(item, "stargazers_count") /\ item["stargazers_count"] >= 50
        updated(item) == datetime_fromisoformat(replace(item["updated_at"], "Z", "+00:00"))
        recent(item) == /\ Has(item, "updated_at")
                        /\ ~updated(item).raised
                        /\ timedelta_days(datetime_now(now), updated(item)) <= 30
    IN  NoSearch /\ NoStatus /\ NoSort =>
            /\ window.category_combo = "Top Rated" => Shown = SelectSeq(window.plugins, top)
            /\ window.category_combo = "Recently Updated" => Shown = SelectSeq(window.plugins, recent)

(* C17: "Favorites" keeps exactly the items whose name is in favorites,
   "Installed" exactly those whose name is in the inventory, "Not Installed"
   exactly those whose name is not, and no status keeps every item. *)
C17_StatusFilter ==
    LET favorite(item) == TextOf(item, "name") \in window.favorites
        installed(item) == TextOf(item, "name") \in DOMAIN inventory
        absent(item) == ~installed(item)
    IN  /\ window.status_combo = "Favorites" =>
                /\ \A i \in 1..Len(Shown) : favorite(Shown[i])
                /\ NoSearch /\ NoCategory /\ NoSort => Shown = SelectSeq(window.plugins, favorite)
        /\ window.status_combo = "Installed" =>
                /\ \A i \in 1..Len(Shown) : installed(Shown[i])
                /\ NoSearch /\ NoCategory /\ NoSort => Shown = SelectSeq(window.plugins, installed)
        /\ window.status_combo = "Not Installed" =>
                /\ \A i \in 1..Len(Shown) : absent(Shown[i])
                /\ NoSearch /\ NoCategory /\ NoSort => Shown = SelectSeq(window.plugins, absent)
        /\ NoStatus /\ NoSearch /\ NoCategory /\ NoSort => Shown = window.plugins

C17_Witness ==
    /\ window.status_combo = "Installed"
    /\ NoSearch /\ NoCategory /\ NoSort
    /\ Len(Shown) = 1
    /\ Len(window.plugins) = 3
    /\ TextOf(Shown[1], "name") = "bar"
    /\ \E i \in 1..3 : TextOf(window.plugins[i], "name") = "Bar"

(* C18: the cards are a permutation of the filtered items in the order of the
   sort chosen (stargazers_count descending, updated_at descending as a
   string, lower-cased name ascending), items with equal keys in catalog order;
   with no sort the filtered items are in catalog order. *)
C18_Sort ==
    LET stars(item) == IF Has(item, "stargazers_count") THEN item["stargazers_count"] ELSE 0
        ordered(x, y) ==
            CASE window.sort_combo = "Stars" -> stars(x) >= stars(y)
              [] window.sort_combo = "Updated" -> ~str_lt(TextOf(x, "updated_at"), TextOf(y, "updated_at"))
              [] window.sort_combo = "Name" -> ~str_lt(lower(TextOf(y, "name")), lower(TextOf(x, "name")))
              [] OTHER -> TRUE
        tied(x, y) == ordered(x, y) /\ ordered(y, x)
        n == Len(window.plugins)
    IN  /\ \A i \in 1..Len(Shown) - 1 : ordered(Shown[i], Shown[i + 1])
        /\ NoSearch /\ NoCategory /\ NoStatus =>
                \E at \in [1..n -> 1..n] :
                    /\ \A i, j \in 1..n : i # j => at[i] # at[j]
                    /\ Shown = [i \in 1..n |-> window.plugins[at[i]]]
                    /\ \A i, j \in 1..n :
                            i < j /\ (NoSort \/ tied(Shown[i], Shown[j])) => at[i] < at[j]

C18_Witness ==
    /\ window.sort_combo = "Name"
    /\ NoSearch /\ NoCategory /\ NoStatus
    /\ Len(Shown) = 3
    /\ TextOf(Shown[1], "name") = "apple"
    /\ TextOf(Shown[2], "name") = "Bar"
    /\ TextOf(Shown[3], "name") = "bar"
    /\ TextOf(window.plugins[2], "name") = "bar"

(* An update record that gives no installed version *)
Unversioned(update_info) ==
    ~Has(update_info, "installed_version") \/ update_info["installed_version"] = "Unknown"

(* C13 as stated: a card whose item is installed with version "Unknown" in
   the inventory never has has_update, whatever cached_updates holds, and
   neither has a card whose item is not installed. *)
C13_Original ==
    \A i \in 1..Len(window.plugins_layout) :
        LET card == window.plugins_layout[i]
            item_name == TextOf(card.data, "name")
        IN  /\ ~card.installed => ~card.has_update
            /\ card.installed /\ Has(inventory, item_name) /\ inventory[item_name] = "Unknown" =>
                    ~card.has_update

(* C13: a card has has_update only if its item is installed and the update
   record found for it (under its name, else under its name without
   ".koplugin") gives an installed version other than "Unknown"; the version
   in the inventory plays no part. *)
C13_UpdateEligibility ==
    \A i \in 1..Len(window.plugins_layout) :
        LET card == window.plugins_layout[i]
            item_name == TextOf(card.data, "name")
            clean_name == replace(item_name, ".koplugin", "")
            updates == window.cached_updates
        IN  /\ ~card.installed => ~card.has_update
            /\ Has(updates, item_name) /\ Unversioned(updates[item_name]) => ~card.has_update
            /\ ~Has(updates, item_name) /\ Has(updates, clean_name) /\ Unversioned(updates[clean_name]) =>
                    ~card.has_update
            /\ ~Has(updates, item_name) /\ ~Has(updates, clean_name) => ~card.has_update

C13_Witness ==
    \E i \in 1..Len(window.plugins_layout) :
        LET card == window.plugins_layout[i]
            item_name == TextOf(card.data, "name")
        IN  /\ card.installed
            /\ ~card.has_update
            /\ Has(inventory, item_name) /\ inventory[item_name] = "1.0"
            /\ Has(window.cached_updates, item_name)
            /\ Has(window.cached_updates[item_name], "installed_version")
            /\ Unversioned(window.cached_updates[item_name])

(* C14: for an installed item named B + ".koplugin" with no update record
   under its name, has_update is decided by the record under B and by no
   other; a record under the name itself is the one used when there is one. *)
C14_SuffixFallback ==
    \A i \in 1..Len(window.plugins_layout) :
        LET card == window.plugins_layout[i]
            item_name == TextOf(card.data, "name")
            updates == window.cached_updates
            suffixed == Len(item_name) > 9 /\ SubSeq(item_name, Len(item_name) - 8, Len(item_name)) = ".koplugin"
            B == SubSeq(item_name, 1, Len(item_name) - 9)
        IN  card.installed =>
                /\ Has(updates, item_name) => (card.has_update <=> ~Unversioned(updates[item_name]))
                /\ ~Has(updates, item_name) /\ suffixed /\ Has(updates, B) =>
                        (card.has_update <=> ~Unversioned(updates[B]))
                /\ ~Has(updates, item_name) /\ suffixed /\ ~Has(updates, B) => ~card.has_update

(* C19: when toggle_favorite returns, the item is in self.favorites and in the
   cache's favorites iff it was switched on, a save that succeeded has put
   the same in the file, and the is_favorite of every card laid out equals
   the membership of its item's name in self.favorites. *)
C19_ToggleFavorite ==
    window.pc = "toggle_favorite" =>
        LET plugin_name == TextOf(window.toggled.data, "name")
        IN  /\ plugin_name \in window.favorites <=> window.toggled.is_favorite
            /\ plugin_name \in get_favorites_result(cache_data) <=> window.toggled.is_favorite
            /\ call.ret = "true" =>
                    (plugin_name \in get_favorites_result(cache_file.data) <=> window.toggled.is_favorite)
            /\ \A i \in 1..Len(window.plugins_layout) :
                    window.plugins_layout[i].is_favorite
                        <=> TextOf(window.plugins_layout[i].data, "name") \in window.favorites

(* C20: in the view background_init leaves when a device is in use, the
   installed flag of every card equals the membership of its item's name in
   the device's inventory. *)
C20_StartupOrder ==
    window.pc = "background_init" /\ window.plugin_installer # <<>> =>
        \A i \in 1..Len(window.plugins_layout) :
            window.plugins_layout[i].installed
                <=> TextOf(window.plugins_layout[i].data, "name") \in DOMAIN inventory

(* C25: a load reads back the favorites an envelope with a readable timestamp
   holds in the file, however old the timestamp is: every favorite stored in
   the file is in the favorites of the cache after load_cache. *)
C25_FavoritesOutliveCatalog ==
    (call.op = "load_cache" /\ cache_file.kind = "dict" /\ Parses(cache_file.data)) =>
        get_favorites_result(cache_file.data) \subseteq get_favorites_result(cache_data)

(* C26: add_favorite and remove_favorite do not extend the time the catalog
   is treated as fresh: the timestamp the envelope had before the operation
   is the one it has after it. *)
C26_FreshnessNotExtended ==
    [][ (call'.op \in {"add_favorite", "remove_favorite"} /\ Parses(cache_data)) =>
            Parses(cache_data') /\ Stamp(cache_data') = Stamp(cache_data) ]_vars

(* C28: a save that returns false leaves the file as it was, so that a later
   load reads what the last successful save wrote. *)
C28_FailedSaveKeepsFile ==
    [][ (call'.op \in SavingOps /\ call'.ret = "false") => cache_file' = cache_file ]_vars

(* C24: filter_items changes nothing but the cards laid out: the catalog lists
   with their order, the installed set, the favorites, the update map, the
   device's inventory and the cache, in memory and in the file, are after it
   what they were before. *)
C24_FilterIsPure ==
    [][ /\ window'.plugins = window.plugins
        /\ window'.patches = window.patches
        /\ window'.installed_plugins = window.installed_plugins
        /\ window'.favorites = window.favorites
        /\ window'.cached_updates = window.cached_updates
        /\ UNCHANGED <<cache_data, cache_file, inventory>> ]_vars

C24_Witness ==
    /\ window.sort_combo = "Stars"
    /\ window.search_input = "foo"
    /\ Len(window.plugins) >= 3
    /\ Len(Shown) >= 2
    /\ Len(Shown) < Len(window.plugins)
    /\ \E i \in 1..Len(window.plugins) : \E j \in (i + 1)..Len(window.plugins) :
            Get(window.plugins[i], "stargazers_count", 0) < Get(window.plugins[j], "stargazers_count", 0)

(* C21: the update map is a snapshot of the inventory it was computed for:
   once an installation has changed the installed set, no card is laid out
   with has_update from the records computed before. *)
C21_UpdatesInvalidated ==
    [][ window'.installed_plugins # window.installed_plugins =>
            \A i \in 1..Len(window'.plugins_layout) : ~window'.plugins_layout[i].has_update ]_vars

(* C30: with the status Updates Available selected, the cards laid out are
   those of the items that have an update: every card has has_update. *)
C30_UpdatesAvailableStatus ==
    window.status_combo = "Updates Available" =>
        \A i \in 1..Len(window.plugins_layout) : window.plugins_layout[i].has_update

(* C22: background_init calls the remote client exactly when the cache does
   not give both lists or is expired: it fetches if the cached plugins or the
   cached patches are missing or the cache is expired, and not otherwise. *)
C22_RemoteFallback ==
    [][ (window.pc = "__init__" /\ window'.pc = "background_init") =>
            (window'.fetched <=> \/ ~Has(cache_data, "plugins")
                                 \/ ~Has(cache_data, "patches")
                                 \/ is_cache_expired_result(cache_data, now) = "true") ]_vars

(* C29: when no device path has been settled, install_item ends in the
   warning that no device is connected: no installation is started and no
   exception escapes. *)
C29_NoDeviceWarning ==
    (window.pc = "install_item" /\ window.koreader_path = <<>>) =>
        /\ window.message_box = "No KOReader device connected!"
        /\ ~window.installing
        /\ window.raised = ""

(* C23: when the device path changes (detection of one device, selection
   among several, manual selection) and when an installation has finished
   with success, installed_plugins is the key set of the inventory of the
   device. *)
C23_InventoryRefreshed ==
    [][ (\/ window'.koreader_path # window.koreader_path
         \/ window.installing /\ ~window'.installing /\ window'.message_box = "Success") =>
            window'.installed_plugins = DOMAIN inventory' ]_vars

C23_Witness ==
    /\ window.message_box = "Success"
    /\ window.koreader_path = <<"media", "kobo", "koreader">>
    /\ window.installed_plugins = DOMAIN inventory
    /\ Cardinality(window.installed_plugins) = 2

(* C27: the favorites of the window are the favorites of the cache service,
   from start-up on and whatever the saves return. *)
C27_FavoritesAgree ==
    window.favorites = get_favorites_result(cache_data)

C27_Witness ==
    /\ window.pc = "toggle_favorite"
    /\ call.ret = "false"
    /\ window.fetched
    /\ window.favorites = {"a.koplugin", "a.koplugin.koplugin"}
    /\ get_favorites_result(cache_data) = {"a.koplugin", "a.koplugin.koplugin"}

====
